---------------------------- MODULE Spec2Model ----------------------------
(***************************************************************************)
(* Decision pipeline and proof ledger of the Frankenstein "Divine Logic"   *)
(* system: axiom gate, truth validator, contradiction engine, hash-chained *)
(* proof ledger and the FrankensteinCore orchestration.                    *)
(*                                                                         *)
(* Python strings are TLA+ strings (TLC evaluates Len, SubSeq and \o on    *)
(* them); Python lists and tuples of strings are sequences; Optional[str]  *)
(* is <<>> (None) or <<s>>; floats of the code (severity, confidence) are  *)
(* integers in hundredths.                                                 *)
(***************************************************************************)
EXTENDS Integers, Sequences, FiniteSets, TLC

(***************************************************************************)
(* Bounds of the model.                                                    *)
(***************************************************************************)
\* process_command calls on a text command per FrankensteinCore instance
MaxCalls == 2
\* append calls on a stand-alone ProofLedger instance
MaxAppends == 3
\* largest value datetime.utcnow() takes (the clock never runs backwards)
MaxClock == 1

(***************************************************************************)
(* str methods used by the code.                                           *)
(***************************************************************************)
CharAt(s, i) == SubSeq(s, i, i)

\* Python slice s[a:b] with 0 <= a, 0-based, b exclusive
Slice(s, a, b) == SubSeq(s, a + 1, IF b < Len(s) THEN b ELSE Len(s))

Whitespace == {" ", "\t", "\n", "\r"}

UpperChars == "ABCDEFGHIJKLMNOPQRSTUVWXYZ"
LowerChars == "abcdefghijklmnopqrstuvwxyz"
DigitChars == "0123456789"

\* p in s
Contains(s, p) ==
    \E i \in 1..(Len(s) - Len(p) + 1) : SubSeq(s, i, i + Len(p) - 1) = p

\* s.find(p): 0-based index of the first occurrence, -1 when there is none
Find(s, p) ==
    LET hits == {i \in 1..(Len(s) - Len(p) + 1) : SubSeq(s, i, i + Len(p) - 1) = p}
    IN  IF hits = {} THEN -1
        ELSE (CHOOSE i \in hits : \A j \in hits : i <= j) - 1

UpperSet == {CharAt(UpperChars, i) : i \in 1..Len(UpperChars)}

LowerOf ==
    [c \in UpperSet |->
        CharAt(LowerChars, CHOOSE i \in 1..Len(UpperChars) : CharAt(UpperChars, i) = c)]

LowerChar(c) == IF c \in UpperSet THEN LowerOf[c] ELSE c

RECURSIVE LowerFrom(_, _)
LowerFrom(s, i) ==
    IF i > Len(s) THEN "" ELSE LowerChar(CharAt(s, i)) \o LowerFrom(s, i + 1)

\* s.lower()
Lower(s) ==
    IF \A i \in 1..Len(s) : CharAt(s, i) \notin UpperSet
    THEN s ELSE LowerFrom(s, 1)

\* the first index at or after i, the last index at or before i, that holds
\* no whitespace
RECURSIVE FirstSolid(_, _)
FirstSolid(s, i) ==
    IF i > Len(s) THEN i
    ELSE IF CharAt(s, i) \in Whitespace THEN FirstSolid(s, i + 1) ELSE i

RECURSIVE LastSolid(_, _)
LastSolid(s, i) ==
    IF i < 1 THEN i
    ELSE IF CharAt(s, i) \in Whitespace THEN LastSolid(s, i - 1) ELSE i

\* s.strip()
Strip(s) ==
    LET first == FirstSolid(s, 1)
        last_ == LastSolid(s, Len(s))
    IN  IF first > last_ THEN "" ELSE SubSeq(s, first, last_)

RECURSIVE ReplaceFrom(_, _, _, _)
ReplaceFrom(s, i, old, new) ==
    IF i > Len(s) THEN ""
    ELSE IF i + Len(old) - 1 <= Len(s) /\ SubSeq(s, i, i + Len(old) - 1) = old
         THEN new \o ReplaceFrom(s, i + Len(old), old, new)
         ELSE CharAt(s, i) \o ReplaceFrom(s, i + 1, old, new)

\* s.replace(old, new), old non-empty: non-overlapping occurrences, left to right
Replace(s, old, new) ==
    IF Contains(s, old) THEN ReplaceFrom(s, 1, old, new) ELSE s

\* c.isalnum() for the characters of the model's alphabet
AlnumSet ==
    {CharAt(UpperChars, i) : i \in 1..Len(UpperChars)}
    \cup {CharAt(LowerChars, i) : i \in 1..Len(LowerChars)}
    \cup {CharAt(DigitChars, i) : i \in 1..Len(DigitChars)}

IsAlnum(c) == c \in AlnumSet

\* Optional[...]: None, or a value
None == <<>>
Some(v) == <<v>>

(***************************************************************************)
(* proof_ledger.py                                                         *)
(***************************************************************************)
\* hashlib.sha256(data).hexdigest(): a collision-free digest is a free
\* constructor over the text it is given
ComputeHash(data) == <<"sha256", data>>

\* JsonDumps leaving prev_hash out of the hashed text
JsonDumps_NoPrevHash(timestamp, premises, inference_steps, conclusion, counterexample, prev_hash) ==
    << <<"conclusion", conclusion>>,
       <<"counterexample", counterexample>>,
       <<"inference_steps", inference_steps>>,
       <<"premises", premises>>,
       <<"timestamp", timestamp>> >>

\* json.dumps({...}, sort_keys=True) of the six hashed fields: the members in
\* key order; a str and null encode differently, a list encodes its items
JsonDumps(timestamp, premises, inference_steps, conclusion, counterexample, prev_hash) ==
    << <<"conclusion", conclusion>>,
       <<"counterexample", counterexample>>,
       <<"inference_steps", inference_steps>>,
       <<"premises", premises>>,
       <<"prev_hash", prev_hash>>,
       <<"timestamp", timestamp>> >>

GenesisHash == ComputeHash(<<"GENESIS_FRANKENSTEIN_DIVINE_LOGIC">>)

\* PrevHashOf with the tail of the ledger forgotten: every record is linked to
\* the genesis digest
PrevHashOf_Genesis(recs) == GenesisHash

\* the prev_hash a new record gets
PrevHashOf(recs) == IF recs # <<>> THEN recs[Len(recs)].hash ELSE GenesisHash

\* NewRecord constructing the record without the counterexample it was given
NewRecord_NoCounterexample(recs, now, premises, inference_steps, conclusion, counterexample) ==
    LET prev_hash == PrevHashOf(recs)
        record_data == JsonDumps(now, premises, inference_steps, conclusion,
                                 counterexample, prev_hash)
    IN  [timestamp       |-> now,
         premises        |-> premises,
         inference_steps |-> inference_steps,
         conclusion      |-> conclusion,
         counterexample  |-> None,
         hash            |-> ComputeHash(record_data),
         prev_hash       |-> prev_hash]

\* the ProofRecord ProofLedger.append constructs from the timestamp and the
\* prev_hash it read
BuildRecord(now, prev_hash, premises, inference_steps, conclusion, counterexample) ==
    LET record_data == JsonDumps(now, premises, inference_steps, conclusion,
                                 counterexample, prev_hash)
    IN  [timestamp       |-> now,
         premises        |-> premises,
         inference_steps |-> inference_steps,
         conclusion      |-> conclusion,
         counterexample  |-> counterexample,
         hash            |-> ComputeHash(record_data),
         prev_hash       |-> prev_hash]

\* the ProofRecord ProofLedger.append constructs at time now, run in one piece
NewRecord(recs, now, premises, inference_steps, conclusion, counterexample) ==
    BuildRecord(now, PrevHashOf(recs), premises, inference_steps, conclusion,
                counterexample)

\* LedgerAppend putting the new record first (insert(0, record))
LedgerAppend_Front(recs, now, premises, inference_steps, conclusion, counterexample) ==
    <<NewRecord(recs, now, premises, inference_steps, conclusion, counterexample)>> \o recs

\* ProofLedger.append: the ledger's records after the call
LedgerAppend(recs, now, premises, inference_steps, conclusion, counterexample) ==
    Append(recs, NewRecord(recs, now, premises, inference_steps, conclusion, counterexample))

\* RecomputedHash not recomputing: the stored hash is compared with itself
RecomputedHash_Stored(record) == record.hash

\* the digest verify_integrity recomputes from a stored record
RecomputedHash(record) ==
    ComputeHash(JsonDumps(record.timestamp, record.premises, record.inference_steps,
                          record.conclusion, record.counterexample, record.prev_hash))

\* VerifyFrom testing the recomputed digest before the linkage
RECURSIVE VerifyFrom_HashFirst(_, _, _)
VerifyFrom_HashFirst(recs, i, prev_hash) ==
    IF i > Len(recs) THEN [valid |-> TRUE, message |-> "Ledger integrity verified"]
    ELSE IF recs[i].hash # RecomputedHash(recs[i])
         THEN [valid |-> FALSE,
               message |-> "Record " \o ToString(i - 1) \o " hash mismatch - content tampered"]
    ELSE IF recs[i].prev_hash # prev_hash
         THEN [valid |-> FALSE, message |-> "Chain broken at record " \o ToString(i - 1)]
    ELSE VerifyFrom_HashFirst(recs, i + 1, recs[i].hash)

\* the loop of verify_integrity from record i (1-based) on, prev_hash being the
\* running expected hash: it returns at the first record failing either test,
\* the linkage test first, and reports the record's 0-based index
RECURSIVE VerifyFrom(_, _, _)
VerifyFrom(recs, i, prev_hash) ==
    IF i > Len(recs) THEN [valid |-> TRUE, message |-> "Ledger integrity verified"]
    ELSE IF recs[i].prev_hash # prev_hash
         THEN [valid |-> FALSE, message |-> "Chain broken at record " \o ToString(i - 1)]
    ELSE IF recs[i].hash # RecomputedHash(recs[i])
         THEN [valid |-> FALSE,
               message |-> "Record " \o ToString(i - 1) \o " hash mismatch - content tampered"]
    ELSE VerifyFrom(recs, i + 1, recs[i].hash)

\* ProofLedger.verify_integrity: (is_valid, message)
VerifyIntegrity(recs) ==
    IF recs = <<>> THEN [valid |-> TRUE, message |-> "Empty ledger is valid"]
    ELSE VerifyFrom(recs, 1, GenesisHash)

\* ProofLedger.get_records: the list the caller receives, a deep copy
GetRecords(recs) == recs

\* StoredAfterMutation for a ledger that hands out its own list and records
StoredAfterMutation_Shared(recs, mutated) == mutated

\* the ledger's records after a caller changed what get_records or
\* get_proof_history returned into mutated: the caller holds a deep copy (fresh
\* dictionaries and lists for the history), no object of which is the ledger's
StoredAfterMutation(recs, mutated) == recs

\* ProofRecord.to_dict
ToDict(record) ==
    [timestamp       |-> record.timestamp,
     premises        |-> record.premises,
     inference_steps |-> record.inference_steps,
     conclusion      |-> record.conclusion,
     counterexample  |-> record.counterexample,
     hash            |-> record.hash,
     prev_hash       |-> record.prev_hash]

(***************************************************************************)
(* axiom_kernel.py                                                         *)
(***************************************************************************)
\* the length bound of validate_against_axioms
MaxPropositionLen == 10000

\* ValidateAgainstAxioms refusing a proposition of exactly the bound's length
ValidateAgainstAxioms_AtBound(proposition) ==
    IF proposition = "" \/ Strip(proposition) = ""
    THEN [valid |-> FALSE, reason |-> "Empty proposition violates identity"]
    ELSE IF Len(proposition) >= MaxPropositionLen
    THEN [valid |-> FALSE, reason |-> "Proposition too long"]
    ELSE [valid |-> TRUE, reason |-> "Passes axiom validation"]

\* AxiomKernel.validate_against_axioms on a str: (is_valid, reason)
ValidateAgainstAxioms(proposition) ==
    IF proposition = "" \/ Strip(proposition) = ""
    THEN [valid |-> FALSE, reason |-> "Empty proposition violates identity"]
    ELSE IF Len(proposition) > MaxPropositionLen
    THEN [valid |-> FALSE, reason |-> "Proposition too long"]
    ELSE [valid |-> TRUE, reason |-> "Passes axiom validation"]

(***************************************************************************)
(* truth_validator.py                                                      *)
(***************************************************************************)
ValidationResponse(result, confidence, reasoning, evidence) ==
    [result |-> result, confidence |-> confidence,
     reasoning |-> reasoning, evidence |-> evidence]

\* TruthValidator._load_core_facts: the Knowledge Base after construction
CoreFacts ==
    [k \in {"cat_is_animal", "chair_is_furniture", "animal_not_furniture"} |->
        CASE k = "cat_is_animal" ->
                ValidationResponse("TRUE", 100, "Cats are mammals, mammals are animals",
                    <<"biological taxonomy", "scientific classification">>)
          [] k = "chair_is_furniture" ->
                ValidationResponse("TRUE", 100,
                    "Chairs are designed objects for sitting, classified as furniture",
                    <<"object classification", "functional definition">>)
          [] k = "animal_not_furniture" ->
                ValidationResponse("TRUE", 100,
                    "Animals are living beings, furniture are inanimate objects - mutually exclusive categories",
                    <<"biological vs artificial classification">>)]

\* TruthValidator._normalize_to_key
NormalizeToKey(statement) ==
    LET st == Replace(Replace(Replace(statement, "a ", ""), "an ", ""), "the ", "")
    IN  IF Contains(st, "cat") /\ Contains(st, "animal") /\ Contains(st, "is")
        THEN "cat_is_animal"
        ELSE IF Contains(st, "cat") /\ Contains(st, "chair") /\ Contains(st, "is")
        THEN "cat_is_chair"
        ELSE IF Contains(st, "chair") /\ Contains(st, "furniture") /\ Contains(st, "is")
        THEN "chair_is_furniture"
        ELSE Replace(st, " ", "_")

MathOperators == {"+", "-", "*", "/", "=", "equals"}
PhysicalKeywords == {"weighs", "measures", "temperature", "speed", "distance"}

\* the two replace calls _parse_statement applies to each side of " is "
StripArticles(part) == Replace(Replace(Strip(part), "a ", ""), "an ", "")

\* ParseStatement looking for arithmetic before it looks for " is "
ParseStatement_MathFirst(statement) ==
    IF \E op \in MathOperators : Contains(statement, op)
    THEN [type |-> "mathematical", expression |-> statement]
    ELSE IF Contains(statement, " is ")
    THEN LET at == Find(statement, " is ")
         IN  [type |-> "classification",
              subject |-> StripArticles(Slice(statement, 0, at)),
              predicate |-> StripArticles(Slice(statement, at + 4, Len(statement))),
              relation |-> "is"]
    ELSE IF \E keyword \in PhysicalKeywords : Contains(statement, keyword)
    THEN [type |-> "physical", claim |-> statement]
    ELSE [type |-> "general", content |-> statement]

\* TruthValidator._parse_statement: the dict it returns (never empty, so the
\* "Cannot parse statement structure" return of validate_statement is dead)
ParseStatement(statement) ==
    IF Contains(statement, " is ")
    THEN LET at == Find(statement, " is ")
         IN  [type |-> "classification",
              subject |-> StripArticles(Slice(statement, 0, at)),
              predicate |-> StripArticles(Slice(statement, at + 4, Len(statement))),
              relation |-> "is"]
    ELSE IF \E op \in MathOperators : Contains(statement, op)
    THEN [type |-> "mathematical", expression |-> statement]
    ELSE IF \E keyword \in PhysicalKeywords : Contains(statement, keyword)
    THEN [type |-> "physical", claim |-> statement]
    ELSE [type |-> "general", content |-> statement]

\* TruthValidator._validate_classification
ValidateClassification(parsed) ==
    LET subject == parsed.subject
        predicate == parsed.predicate
    IN  IF subject = "cat" /\ predicate = "animal"
        THEN ValidationResponse("TRUE", 100,
                 subject \o " is classified as " \o predicate \o " in biological taxonomy",
                 <<"biological classification">>)
        ELSE IF subject = "cat" /\ predicate \in {"chair", "furniture"}
        THEN ValidationResponse("FALSE", 100,
                 subject \o " is a living animal, " \o predicate
                         \o " is an inanimate object - contradiction",
                 <<"biological vs artificial classification", "living vs non-living">>)
        ELSE IF subject = "co2" /\ Contains(predicate, "safe store")
                /\ Contains(predicate, "oxygen")
        THEN ValidationResponse("FALSE", 90,
                 "CO2 is not a safe store of oxygen - oxygen in CO2 is bound to carbon and not bioavailable",
                 <<"chemistry", "molecular structure">>)
        ELSE ValidationResponse("UNKNOWN", 30,
                 "Insufficient knowledge to validate: " \o subject \o " is " \o predicate,
                 <<>>)

\* TruthValidator._validate_mathematical
ValidateMathematical(parsed) ==
    LET expression == parsed.expression
    IN  IF Contains(expression, "5 + 5") \/ Contains(expression, "5+5")
        THEN IF Contains(expression, "10") \/ Contains(expression, "equals 10")
             THEN ValidationResponse("TRUE", 100, "5 + 5 = 10 is mathematically correct",
                      <<"arithmetic">>)
             ELSE ValidationResponse("FALSE", 100, "5 + 5 does not equal the stated result",
                      <<"arithmetic">>)
        ELSE ValidationResponse("UNKNOWN", 20,
                 "Mathematical validation not implemented for this expression", <<>>)

\* TruthValidator._validate_physical
ValidatePhysical(parsed) ==
    ValidationResponse("UNKNOWN", 20, "Physical validation system not fully implemented", <<>>)

\* TruthValidator._simulate_llm_validation
SimulateLlmValidation(statement) ==
    ValidationResponse("UNKNOWN", 10,
        "LLM validation unavailable - using rule-based validation only", <<"no_llm">>)

\* TruthValidator.validate_statement against the Knowledge Base kb
ValidateStatement(kb, statement) ==
    LET statement_lower == Strip(Lower(statement))
        fact_key == NormalizeToKey(statement_lower)
        parsed == ParseStatement(statement_lower)
    IN  IF fact_key \in DOMAIN kb THEN kb[fact_key]
        ELSE IF parsed.type = "classification" THEN ValidateClassification(parsed)
        ELSE IF parsed.type = "mathematical" THEN ValidateMathematical(parsed)
        ELSE IF parsed.type = "physical" THEN ValidatePhysical(parsed)
        ELSE SimulateLlmValidation(statement)

\* AddValidatedFact without its guard: a response of any result is stored
AddValidatedFact_NoGuard(kb, statement, validation) ==
    LET key == NormalizeToKey(Lower(statement))
    IN  [k \in DOMAIN kb \cup {key} |-> IF k = key THEN validation ELSE kb[k]]

\* TruthValidator.add_validated_fact: the Knowledge Base after the call
AddValidatedFact(kb, statement, validation) ==
    IF validation.result # "TRUE" THEN kb
    ELSE LET key == NormalizeToKey(Lower(statement))
         IN  [k \in DOMAIN kb \cup {key} |-> IF k = key THEN validation ELSE kb[k]]

(***************************************************************************)
(* contradiction_engine.py                                                 *)
(***************************************************************************)
\* ContradictionType values
Type_DIRECT == "Direct logical contradiction"
Type_LOGICAL == "Logical contradiction through inference"
Type_TEMPORAL == "Temporal contradiction (time-based conflict)"
Type_SURVIVAL == "Violates survival axioms"

\* Proposition(id, content, source, timestamp), confidence defaulting to 1.0
Proposition(id, content, source, timestamp) ==
    [id |-> id, content |-> content, source |-> source,
     timestamp |-> timestamp, confidence |-> 100]

Contradiction(type, propositions, explanation, severity) ==
    [type |-> type, propositions |-> propositions,
     explanation |-> explanation, severity |-> severity]

Negations == <<"not", "no", "never", "cannot", "can't", "won't", "don't", "doesn't">>

Opposites ==
    << <<"builds", "destroys">>, <<"creates", "destroys">>, <<"strengthens", "weakens">>,
       <<"supports", "undermines">>, <<"helps", "harms">>, <<"improves", "degrades">>,
       <<"stabilizes", "destabilizes">>, <<"maintains", "breaks">> >>

\* one side of the negation-word test of _is_negation: a has the word, b has not
NegationWordHit(a, b, neg) ==
    /\ Contains(a, neg)
    /\ ~Contains(b, neg)
    /\ LET cleaned == Strip(Replace(a, neg, ""))
       IN  Contains(b, cleaned) \/ Contains(cleaned, b)

\* one side of the opposite-verb test of _is_negation: a has verb va, b has vb
OppositeVerbHit(a, va, b, vb) ==
    /\ Contains(a, va)
    /\ Contains(b, vb)
    /\ Find(a, va) > 0
    /\ Find(b, vb) > 0
    /\ LET subject1 == Strip(Slice(a, 0, Find(a, va)))
           subject2 == Strip(Slice(b, 0, Find(b, vb)))
       IN  subject1 = subject2 \/ Contains(subject2, subject1) \/ Contains(subject1, subject2)

\* ContradictionEngine._is_negation: every test returns True on a hit and has
\* no other effect, so the result is the disjunction of the tests
IsNegation(content1, content2) ==
    \/ \E n \in 1..Len(Negations) :
          \/ NegationWordHit(content1, content2, Negations[n])
          \/ NegationWordHit(content2, content1, Negations[n])
    \/ \E o \in 1..Len(Opposites) :
          \/ OppositeVerbHit(content1, Opposites[o][1], content2, Opposites[o][2])
          \/ OppositeVerbHit(content1, Opposites[o][2], content2, Opposites[o][1])

\* CheckDirectContradiction listing the new proposition before the existing one
CheckDirectContradiction_NewFirst(known, prop) ==
    { Contradiction(Type_DIRECT, <<prop, existing>>,
          "Direct contradiction: '" \o existing.content \o "' vs '" \o prop.content \o "'",
          100) :
      existing \in {e \in known : IsNegation(Lower(prop.content), Lower(e.content))} }

\* ContradictionEngine._check_direct_contradiction: the contradictions the loop
\* over the known set can return, one per known proposition the new one negates
\* (a Python set is walked in an order the program does not fix); {} is None
CheckDirectContradiction(known, prop) ==
    { Contradiction(Type_DIRECT, <<existing, prop>>,
          "Direct contradiction: '" \o existing.content \o "' vs '" \o prop.content \o "'",
          100) :
      existing \in {e \in known : IsNegation(Lower(prop.content), Lower(e.content))} }

GreedPatterns ==
    {"maximize profit", "extract", "exploit", "short-term gain", "at all costs",
     "profit above all", "maximum extraction", "squeeze every penny", "milk for profit"}

DestabilizePatterns ==
    {"destabilize", "undermine", "break", "destroy collective", "tear down",
     "dismantle", "sabotage", "weaken the system"}

\* CheckSurvivalViolation testing the greed phrases only
CheckSurvivalViolation_NoDestabilize(prop) ==
    LET content_lower == Lower(prop.content)
    IN  IF \E pattern \in GreedPatterns : Contains(content_lower, pattern)
        THEN Some(Contradiction(Type_SURVIVAL, <<prop>>,
                 "Violates survival axiom: '" \o prop.content
                     \o "' optimizes for extraction over collective stability", 80))
        ELSE None

\* CheckSurvivalViolation testing the destabilization phrases only
CheckSurvivalViolation_NoGreed(prop) ==
    LET content_lower == Lower(prop.content)
    IN  IF \E pattern \in DestabilizePatterns : Contains(content_lower, pattern)
        THEN Some(Contradiction(Type_SURVIVAL, <<prop>>,
                 "Violates survival axiom: '" \o prop.content
                     \o "' destabilizes collective coherence", 90))
        ELSE None

\* ContradictionEngine._check_survival_violation: None or the contradiction
CheckSurvivalViolation(prop) ==
    LET content_lower == Lower(prop.content)
    IN  IF \E pattern \in GreedPatterns : Contains(content_lower, pattern)
        THEN Some(Contradiction(Type_SURVIVAL, <<prop>>,
                 "Violates survival axiom: '" \o prop.content
                     \o "' optimizes for extraction over collective stability", 80))
        ELSE IF \E pattern \in DestabilizePatterns : Contains(content_lower, pattern)
        THEN Some(Contradiction(Type_SURVIVAL, <<prop>>,
                 "Violates survival axiom: '" \o prop.content
                     \o "' destabilizes collective coherence", 90))
        ELSE None

\* CheckTruthViolation accepting a TRUE statement without storing it as a fact
CheckTruthViolation_NoWrite(kb, prop) ==
    LET validation == ValidateStatement(kb, prop.content)
    IN  IF validation.result = "FALSE"
        THEN [contradiction |-> Some(Contradiction(Type_LOGICAL, <<prop>>,
                  "Statement is false: " \o validation.reasoning, 95)),
              validation |-> validation, kb |-> kb]
        ELSE IF validation.result = "CONTRADICTION"
        THEN [contradiction |-> Some(Contradiction(Type_LOGICAL, <<prop>>,
                  "Contradicts established facts: " \o validation.reasoning, 100)),
              validation |-> validation, kb |-> kb]
        ELSE [contradiction |-> None, validation |-> validation, kb |-> kb]

\* ContradictionEngine._check_truth_violation: the contradiction (or None), the
\* validator's response and the Knowledge Base after the call
CheckTruthViolation(kb, prop) ==
    LET validation == ValidateStatement(kb, prop.content)
    IN  IF validation.result = "FALSE"
        THEN [contradiction |-> Some(Contradiction(Type_LOGICAL, <<prop>>,
                  "Statement is false: " \o validation.reasoning, 95)),
              validation |-> validation, kb |-> kb]
        ELSE IF validation.result = "CONTRADICTION"
        THEN [contradiction |-> Some(Contradiction(Type_LOGICAL, <<prop>>,
                  "Contradicts established facts: " \o validation.reasoning, 100)),
              validation |-> validation, kb |-> kb]
        ELSE IF validation.result = "TRUE"
        THEN [contradiction |-> None, validation |-> validation,
              kb |-> AddValidatedFact(kb, prop.content, validation)]
        ELSE [contradiction |-> None, validation |-> validation, kb |-> kb]

\* set.add on a set of Propositions, which hash and compare by id alone: an
\* element with the same id is already "in" the set and is kept
SetAdd(known, prop) ==
    IF \E p \in known : p.id = prop.id THEN known ELSE known \cup {prop}

\* AddProposition storing the proposition whatever the verdict
AddProposition_StoreAlways(known, detected, kb, prop) ==
    LET direct == CheckDirectContradiction(known, prop)
        survival == CheckSurvivalViolation(prop)
        truth == CheckTruthViolation(kb, prop)
    IN  IF direct # {}
        THEN { [contradiction |-> Some(c), known |-> SetAdd(known, prop),
                detected |-> Append(detected, c), kb |-> kb, validation |-> None] :
               c \in direct }
        ELSE IF survival # None
        THEN { [contradiction |-> survival, known |-> SetAdd(known, prop),
                detected |-> Append(detected, survival[1]), kb |-> kb,
                validation |-> None] }
        ELSE IF truth.contradiction # None
        THEN { [contradiction |-> truth.contradiction, known |-> SetAdd(known, prop),
                detected |-> Append(detected, truth.contradiction[1]), kb |-> truth.kb,
                validation |-> Some(truth.validation)] }
        ELSE { [contradiction |-> None, known |-> SetAdd(known, prop),
                detected |-> detected, kb |-> truth.kb,
                validation |-> Some(truth.validation)] }

\* AddProposition returning a truth violation without logging it
AddProposition_TruthUnlogged(known, detected, kb, prop) ==
    LET direct == CheckDirectContradiction(known, prop)
        survival == CheckSurvivalViolation(prop)
        truth == CheckTruthViolation(kb, prop)
    IN  IF direct # {}
        THEN { [contradiction |-> Some(c), known |-> known,
                detected |-> Append(detected, c), kb |-> kb, validation |-> None] :
               c \in direct }
        ELSE IF survival # None
        THEN { [contradiction |-> survival, known |-> known,
                detected |-> Append(detected, survival[1]), kb |-> kb,
                validation |-> None] }
        ELSE IF truth.contradiction # None
        THEN { [contradiction |-> truth.contradiction, known |-> known,
                detected |-> detected, kb |-> truth.kb,
                validation |-> Some(truth.validation)] }
        ELSE { [contradiction |-> None, known |-> SetAdd(known, prop),
                detected |-> detected, kb |-> truth.kb,
                validation |-> Some(truth.validation)] }

\* AddProposition consulting the Truth Validator before the other two checks
AddProposition_TruthFirst(known, detected, kb, prop) ==
    LET direct == CheckDirectContradiction(known, prop)
        survival == CheckSurvivalViolation(prop)
        truth == CheckTruthViolation(kb, prop)
    IN  IF truth.contradiction # None
        THEN { [contradiction |-> truth.contradiction, known |-> known,
                detected |-> Append(detected, truth.contradiction[1]), kb |-> truth.kb,
                validation |-> Some(truth.validation)] }
        ELSE IF direct # {}
        THEN { [contradiction |-> Some(c), known |-> known,
                detected |-> Append(detected, c), kb |-> truth.kb,
                validation |-> Some(truth.validation)] :
               c \in direct }
        ELSE IF survival # None
        THEN { [contradiction |-> survival, known |-> known,
                detected |-> Append(detected, survival[1]), kb |-> truth.kb,
                validation |-> Some(truth.validation)] }
        ELSE { [contradiction |-> None, known |-> SetAdd(known, prop),
                detected |-> detected, kb |-> truth.kb,
                validation |-> Some(truth.validation)] }

\* ContradictionEngine.add_proposition on the engine state (known set, detected
\* list, Knowledge Base): the outcomes it can have, each the returned
\* contradiction (or None), the engine state after the call and the validator's
\* response when the validator was consulted
AddProposition(known, detected, kb, prop) ==
    LET direct == CheckDirectContradiction(known, prop)
        survival == CheckSurvivalViolation(prop)
        truth == CheckTruthViolation(kb, prop)
    IN  IF direct # {}
        THEN { [contradiction |-> Some(c), known |-> known,
                detected |-> Append(detected, c), kb |-> kb, validation |-> None] :
               c \in direct }
        ELSE IF survival # None
        THEN { [contradiction |-> survival, known |-> known,
                detected |-> Append(detected, survival[1]), kb |-> kb,
                validation |-> None] }
        ELSE IF truth.contradiction # None
        THEN { [contradiction |-> truth.contradiction, known |-> known,
                detected |-> Append(detected, truth.contradiction[1]), kb |-> truth.kb,
                validation |-> Some(truth.validation)] }
        ELSE { [contradiction |-> None, known |-> SetAdd(known, prop),
                detected |-> detected, kb |-> truth.kb,
                validation |-> Some(truth.validation)] }

\* ContradictionEngine.get_contradiction_count
GetContradictionCount(detected) == Len(detected)

\* str(severity) of the four severities the engine uses
SeverityStr(severity) ==
    CASE severity = 100 -> "1.0"
      [] severity = 95 -> "0.95"
      [] severity = 90 -> "0.9"
      [] severity = 80 -> "0.8"

RECURSIVE RefusalLines(_, _)
RefusalLines(props, i) ==
    IF i > Len(props) THEN ""
    ELSE "  " \o ToString(i) \o ". [" \o props[i].source \o "] " \o props[i].content \o "\n"
         \o RefusalLines(props, i + 1)

\* ContradictionEngine.generate_refusal
GenerateRefusal(contradiction) ==
    "REFUSAL: " \o contradiction.type \o "\n"
    \o "Reason: " \o contradiction.explanation \o "\n"
    \o "Severity: " \o SeverityStr(contradiction.severity) \o "\n"
    \o "\nCounterexample:\n"
    \o RefusalLines(contradiction.propositions, 1)
    \o "\nLogic is master. This command violates coherence."

(***************************************************************************)
(* frankenstein_core.py                                                    *)
(***************************************************************************)
\* FrankensteinCore._contradiction_threshold, in hundredths
ContradictionThreshold == 70

\* OverrideAfter recomputing the flag on every verdict, so that an acceptance
\* clears it
OverrideAfter_Recomputed(override_active, verdict) ==
    verdict # None /\ verdict[1].severity >= ContradictionThreshold

\* OverrideAfter setting the flag for a contradiction of severity 1.0 only
OverrideAfter_FullSeverityOnly(override_active, verdict) ==
    IF verdict # None /\ verdict[1].severity >= 100
    THEN TRUE ELSE override_active

\* OverrideAfter never setting the flag
OverrideAfter_Never(override_active, verdict) == override_active

\* FrankensteinCore._override_active after the engine's verdict (None or a
\* contradiction): set when the severity reaches the threshold, else left alone
OverrideAfter(override_active, verdict) ==
    IF verdict # None /\ verdict[1].severity >= ContradictionThreshold
    THEN TRUE ELSE override_active

\* the cut [:50] of the sanitized source
MaxSourceLen == 50

RECURSIVE KeepSourceChars(_, _)
KeepSourceChars(source, i) ==
    IF i > Len(source) THEN ""
    ELSE (IF IsAlnum(CharAt(source, i)) \/ CharAt(source, i) \in {"_", "-"}
          THEN CharAt(source, i) ELSE "")
         \o KeepSourceChars(source, i + 1)

\* the source process_command stores: "unknown" for a source that is no str,
\* else its alphanumeric, '_' and '-' characters, cut to 50
SanitizeSource(source) ==
    IF source[1] # "str" THEN "unknown"
    ELSE Slice(KeepSourceChars(source[2], 1), 0, MaxSourceLen)

\* datetime.utcnow().isoformat() of a clock value
IsoFormat(t) == ToString(t)

\* FrankensteinCore.get_status
GetStatus(recs, detected, override_active) ==
    [axiom_kernel_immutable   |-> TRUE,
     proof_ledger_valid       |-> VerifyIntegrity(recs).valid,
     proof_ledger_message     |-> VerifyIntegrity(recs).message,
     total_decisions          |-> Len(recs),
     contradictions_detected  |-> GetContradictionCount(detected),
     override_active          |-> override_active,
     status                   |-> "Logic is master"]

\* FrankensteinCore.get_proof_history
GetProofHistory(recs) == [i \in 1..Len(recs) |-> ToDict(recs[i])]

(***************************************************************************)
(* The state: one object under test, a FrankensteinCore with its kernel,   *)
(* ledger and engine, or a ProofLedger, a TruthValidator or an AxiomKernel *)
(* on its own.                                                             *)
(***************************************************************************)
VARIABLES
    instance,     \* "FrankensteinCore" or "ProofLedger": the object constructed
    records,      \* ProofLedger._records
    known,        \* ContradictionEngine._known_propositions
    detected,     \* ContradictionEngine._detected_contradictions
    facts,        \* TruthValidator._established_facts
    override,     \* FrankensteinCore._override_active
    clock,        \* the last value datetime.utcnow() returned
    tamper,       \* None, or the record and field corrupted in place
    submitted,    \* the text commands process_command was called with, in order
    answers,      \* the (argument, result) pairs a kernel or validator returned
    pending,      \* the ProofLedger.append calls in progress, one per thread
    last          \* the last call and what it returned

vars == <<instance, records, known, detected, facts, override, clock, tamper,
          submitted, answers, pending, last>>

\* the values datetime.utcnow() can return when it last returned t
After(t) == {u \in t..(t + 1) : u <= MaxClock}

\* a str argument, and an argument of another type
Str(s) == <<"str", s>>
NotStr == <<"int", 42>>

LongCommand(n) ==
    LET RECURSIVE Rep(_)
        Rep(k) == IF k = 0 THEN ""
                  ELSE IF k % 2 = 0 THEN LET h == Rep(k \div 2) IN h \o h
                  ELSE "x" \o Rep(k - 1)
    IN  Rep(n)

\* the (command, source) arguments process_command is called with
Submissions ==
    { <<Str("cats are animals"), Str("user")>>,
      <<Str("5 + 5 = 10"), Str("user")>>,
      <<Str("5 + 5 = 11"), Str("user")>>,
      <<Str(""), Str("user")>>,
      <<Str(LongCommand(MaxPropositionLen + 1)), Str("user")>>,
      <<Str("the company builds trust"), Str("user")>>,
      <<Str("the company destroys trust"), Str("ops team #1")>>,
      <<Str("maximize profit at all costs"), Str("user")>>,
      <<Str("The company undermines trust"), NotStr>>,
      <<Str("the company supports trust"), Str("user")>>,
      <<Str("the company creates trust"), Str("user")>>,
      <<Str("the company destroys trust 5 + 5 = 11"), Str("user")>>,
      <<Str("it builds and destroys"), Str("user")>>,
      <<NotStr, Str("user")>> }

\* the text commands of Submissions
TextCommands == {sub[1][2] : sub \in {s \in Submissions : s[1][1] = "str"}}

\* the arguments ProofLedger.append is called with on a ledger of its own
Appends ==
    { [premises |-> <<"p">>, inference_steps |-> <<"s1", "s2">>,
       conclusion |-> "ACCEPTED", counterexample |-> None],
      [premises |-> <<"p">>, inference_steps |-> <<>>,
       conclusion |-> "REFUSED", counterexample |-> Some("because")],
      [premises |-> <<>>, inference_steps |-> <<"s1">>,
       conclusion |-> "", counterexample |-> Some("")] }

NoEngine == [k \in {} |-> None]

\* InitCore without the initialization record
InitCore_NoRecord ==
    /\ instance = "FrankensteinCore"
    /\ records = <<>>
    /\ known = {}
    /\ detected = <<>>
    /\ facts = CoreFacts
    /\ override = FALSE
    /\ clock = 0
    /\ tamper = None
    /\ submitted = <<>>
    /\ answers = {}
    /\ pending = <<>>
    /\ last = [op |-> "__init__"]

\* FrankensteinCore.__init__: fresh kernel, ledger and engine, then the
\* initialization record
InitCore ==
    /\ instance = "FrankensteinCore"
    /\ records = LedgerAppend(<<>>, 0, <<"System initialization">>,
                     <<"Load axiom kernel", "Initialize proof ledger",
                       "Initialize contradiction engine">>,
                     "Frankenstein Core initialized - Logic is master", None)
    /\ known = {}
    /\ detected = <<>>
    /\ facts = CoreFacts
    /\ override = FALSE
    /\ clock = 0
    /\ tamper = None
    /\ submitted = <<>>
    /\ answers = {}
    /\ pending = <<>>
    /\ last = [op |-> "__init__"]

\* ProofLedger.__init__
InitLedger ==
    /\ instance = "ProofLedger"
    /\ records = <<>>
    /\ known = {}
    /\ detected = <<>>
    /\ facts = NoEngine
    /\ override = FALSE
    /\ clock = 0
    /\ tamper = None
    /\ submitted = <<>>
    /\ answers = {}
    /\ pending = <<>>
    /\ last = [op |-> "__init__"]

\* TruthValidator.__init__
InitValidator ==
    /\ instance = "TruthValidator"
    /\ records = <<>>
    /\ known = {}
    /\ detected = <<>>
    /\ facts = CoreFacts
    /\ override = FALSE
    /\ clock = 0
    /\ tamper = None
    /\ submitted = <<>>
    /\ answers = {}
    /\ pending = <<>>
    /\ last = [op |-> "__init__"]

\* AxiomKernel.__init__: the kernel keeps no state a validation reads or writes
InitKernel ==
    /\ instance = "AxiomKernel"
    /\ records = <<>>
    /\ known = {}
    /\ detected = <<>>
    /\ facts = NoEngine
    /\ override = FALSE
    /\ clock = 0
    /\ tamper = None
    /\ submitted = <<>>
    /\ answers = {}
    /\ pending = <<>>
    /\ last = [op |-> "__init__"]

Init == InitCore \/ InitLedger \/ InitValidator \/ InitKernel

\* process_command on a command that is no str: returns before anything is built
ProcessNonText(command, source) ==
    /\ instance = "FrankensteinCore"
    /\ command[1] # "str"
    /\ last' = [op |-> "process_command", command |-> command,
                accepted |-> FALSE, message |-> "Command must be string",
                path |-> "not_text"]
    /\ UNCHANGED <<instance, answers, pending, records, known, detected, facts, override, clock, tamper,
                   submitted>>

\* ProcessAxiomRefusal returning the refusal without logging it
ProcessAxiomRefusal_NoAppend(command, source, t1) ==
    LET cmd == command[2]
        gate == ValidateAgainstAxioms(cmd)
        refusal == "AXIOM VIOLATION: " \o gate.reason
    IN  /\ ~gate.valid
        /\ last' = [op |-> "process_command", command |-> command,
                    accepted |-> FALSE, message |-> refusal, path |-> "axiom"]
        /\ UNCHANGED <<clock, records, known, detected, facts, override>>

\* ProcessAxiomRefusal logging the refusal without its counterexample
ProcessAxiomRefusal_NoCounterexample(command, source, t1) ==
    LET cmd == command[2]
        gate == ValidateAgainstAxioms(cmd)
        refusal == "AXIOM VIOLATION: " \o gate.reason
    IN  /\ ~gate.valid
        /\ \E t2 \in After(t1) :
              /\ clock' = t2
              /\ records' = LedgerAppend(records, t2, <<cmd>>, <<"Axiom validation">>,
                                         "REFUSED", None)
        /\ last' = [op |-> "process_command", command |-> command,
                    accepted |-> FALSE, message |-> refusal, path |-> "axiom"]
        /\ UNCHANGED <<known, detected, facts, override>>

\* process_command refusing at the axiom gate; t1 is the time the proposition
\* is stamped with, t2 the time of the ledger append
ProcessAxiomRefusal(command, source, t1) ==
    LET cmd == command[2]
        gate == ValidateAgainstAxioms(cmd)
        refusal == "AXIOM VIOLATION: " \o gate.reason
    IN  /\ ~gate.valid
        /\ \E t2 \in After(t1) :
              /\ clock' = t2
              /\ records' = LedgerAppend(records, t2, <<cmd>>, <<"Axiom validation">>,
                                         "REFUSED", Some(refusal))
        /\ last' = [op |-> "process_command", command |-> command,
                    accepted |-> FALSE, message |-> refusal, path |-> "axiom"]
        /\ UNCHANGED <<known, detected, facts, override>>

\* process_command past the axiom gate: the engine's verdict, the override
\* flag, and the ledger append of the refusal or the acceptance
ProcessChecked(command, source, t1) ==
    LET cmd == command[2]
        src == SanitizeSource(source)
        timestamp == IsoFormat(t1)
        prop == Proposition(src \o "_" \o timestamp, cmd, src, timestamp)
    IN  /\ ValidateAgainstAxioms(cmd).valid
        /\ \E out \in AddProposition(known, detected, facts, prop) :
              /\ known' = out.known
              /\ detected' = out.detected
              /\ facts' = out.kb
              /\ override' = OverrideAfter(override, out.contradiction)
              /\ IF out.contradiction # None
                 THEN LET contradiction == out.contradiction[1]
                          refusal == GenerateRefusal(contradiction)
                      IN  /\ \E t2 \in After(t1) :
                                /\ clock' = t2
                                /\ records' = LedgerAppend(records, t2, <<cmd>>,
                                       <<"Contradiction detection",
                                         "Type: " \o contradiction.type>>,
                                       "REFUSED", Some(refusal))
                          /\ last' = [op |-> "process_command", command |-> command,
                                      accepted |-> FALSE, message |-> refusal,
                                      path |-> "contradiction", prop |-> prop,
                                      contradiction |-> contradiction,
                                      validation |-> out.validation]
                 ELSE /\ \E t2 \in After(t1) :
                            /\ clock' = t2
                            /\ records' = LedgerAppend(records, t2, <<cmd>>,
                                   <<"Axiom validation: PASS", "Contradiction check: PASS">>,
                                   "ACCEPTED", None)
                      /\ last' = [op |-> "process_command", command |-> command,
                                  accepted |-> TRUE,
                                  message |-> "Command accepted: " \o cmd,
                                  path |-> "accepted", prop |-> prop,
                                  validation |-> out.validation]

\* FrankensteinCore.process_command(command, source)
ProcessCommand ==
    /\ instance = "FrankensteinCore"
    /\ \E sub \in Submissions :
          \/ ProcessNonText(sub[1], sub[2])
          \/ /\ sub[1][1] = "str"
             /\ Len(submitted) < MaxCalls
             /\ submitted' = Append(submitted, sub[1][2])
             /\ \E t1 \in After(clock) :
                   \/ ProcessAxiomRefusal(sub[1], sub[2], t1)
                   \/ ProcessChecked(sub[1], sub[2], t1)
             /\ UNCHANGED <<instance, answers, pending, tamper>>

\* FrankensteinCore.get_status(): a read of the ledger, the engine and the
\* flag that writes nothing; GetStatus is what it returns
StatusQuery ==
    /\ instance = "FrankensteinCore"
    /\ GetStatus(records, detected, override).status = "Logic is master"
    /\ UNCHANGED vars

\* FrankensteinCore.get_proof_history(): a read of the ledger that writes
\* nothing; GetProofHistory is what it returns
HistoryQuery ==
    /\ instance = "FrankensteinCore"
    /\ Len(GetProofHistory(records)) = Len(records)
    /\ UNCHANGED vars

\* ProofLedger.append on a ledger of its own
AppendCall ==
    /\ instance = "ProofLedger"
    /\ Len(records) < MaxAppends
    /\ \E a \in Appends : \E t \in After(clock) :
          /\ clock' = t
          /\ records' = LedgerAppend(records, t, a.premises, a.inference_steps,
                                     a.conclusion, a.counterexample)
          /\ last' = [op |-> "append", record |-> records'[Len(records')]]
    /\ UNCHANGED <<instance, answers, pending, known, detected, facts, override, tamper, submitted>>

\* ProofLedger.verify_integrity() on a ledger of its own
VerifyCall ==
    /\ instance = "ProofLedger"
    /\ last' = [op |-> "verify_integrity", result |-> VerifyIntegrity(records)]
    /\ UNCHANGED <<instance, answers, pending, records, known, detected, facts, override, clock, tamper,
                   submitted>>

\* the values a stored field can be overwritten with
FieldValues(field) ==
    CASE field = "timestamp" -> 0..(MaxClock + 1)
      [] field \in {"premises", "inference_steps"} -> {<<>>, <<"p">>, <<"forged">>}
      [] field = "conclusion" -> {"ACCEPTED", "REFUSED"}
      [] field = "counterexample" -> {None, Some("forged")}
      [] field \in {"hash", "prev_hash"} ->
            {GenesisHash, ComputeHash(<<"forged">>)} \cup {records[j].hash : j \in 1..Len(records)}

RecordFields ==
    {"timestamp", "premises", "inference_steps", "conclusion", "counterexample",
     "hash", "prev_hash"}

\* one stored field of one record of the ledger is overwritten in place with a
\* different value (once per ledger)
Tamper ==
    /\ instance = "ProofLedger"
    /\ tamper = None
    /\ \E i \in 1..Len(records) : \E field \in RecordFields : \E v \in FieldValues(field) :
          /\ v # records[i][field]
          /\ records' = [records EXCEPT ![i][field] = v]
          /\ tamper' = Some([index |-> i - 1, field |-> field])
          /\ last' = [op |-> "tamper"]
    /\ UNCHANGED <<instance, answers, pending, known, detected, facts, override, clock, submitted>>

\* what a caller can turn a returned list of records or dictionaries into:
\* cleared, its last element removed, a field of an element overwritten
Mutations(returned) ==
    {<<>>}
    \cup {SubSeq(returned, 1, Len(returned) - 1) : i \in {1} \cap DOMAIN returned}
    \cup {[returned EXCEPT ![i].conclusion = "FORGED"] : i \in DOMAIN returned}

\* a caller of ProofLedger.get_records changes the list or a record it
\* received (of a ledger no stored field of which was overwritten)
MutateRecords ==
    /\ instance = "ProofLedger"
    /\ tamper = None
    /\ records' \in {StoredAfterMutation(records, mutated) :
                       mutated \in Mutations(GetRecords(records))}
    /\ last' = [op |-> "mutate_records"]
    /\ UNCHANGED <<instance, known, detected, facts, override, clock, tamper,
                   submitted, answers, pending>>

\* a caller of FrankensteinCore.get_proof_history changes the list or a
\* dictionary it received
MutateHistory ==
    /\ instance = "FrankensteinCore"
    /\ records' \in {StoredAfterMutation(records, mutated) :
                       mutated \in Mutations(GetProofHistory(records))}
    /\ last' = [op |-> "mutate_history"]
    /\ UNCHANGED <<instance, known, detected, facts, override, clock, tamper,
                   submitted, answers, pending>>

\* the statements validate_statement and add_validated_fact are called with on
\* a validator of its own
Statements ==
    {"a cat is an animal", "5 + 5 = 10", "5 + 5 = 11", "the company builds trust"}

\* a TRUE response a caller hands to add_validated_fact
Taught == ValidationResponse("TRUE", 100, "Confirmed by the operator", <<"operator">>)

\* ValidateCall storing every response it computes in the Knowledge Base
ValidateCall_Caching ==
    /\ instance = "TruthValidator"
    /\ \E statement \in Statements :
          LET response == ValidateStatement(facts, statement)
              key == NormalizeToKey(Strip(Lower(statement)))
          IN  /\ last' = [op |-> "validate_statement", statement |-> statement,
                          response |-> response]
              /\ answers' = answers \cup {<<statement, response>>}
              /\ facts' = [k \in DOMAIN facts \cup {key} |->
                              IF k = key THEN response ELSE facts[k]]
    /\ UNCHANGED <<instance, records, known, detected, override, clock, tamper,
                   submitted, pending>>

\* TruthValidator.validate_statement on a validator of its own: a read of the
\* Knowledge Base; answers keeps what was returned since the Knowledge Base
\* last changed
ValidateCall ==
    /\ instance = "TruthValidator"
    /\ \E statement \in Statements :
          LET response == ValidateStatement(facts, statement)
          IN  /\ last' = [op |-> "validate_statement", statement |-> statement,
                          response |-> response]
              /\ answers' = answers \cup {<<statement, response>>}
    /\ UNCHANGED <<instance, records, known, detected, facts, override, clock, tamper,
                   submitted, pending>>

\* TruthValidator.add_validated_fact on a validator of its own, with the
\* validator's own response (as the engine calls it) or a taught one
AddFactCall ==
    /\ instance = "TruthValidator"
    /\ \E statement \in Statements :
       \E validation \in {ValidateStatement(facts, statement), Taught} :
          /\ facts' = AddValidatedFact(facts, statement, validation)
          /\ answers' = IF facts' = facts THEN answers ELSE {}
          /\ last' = [op |-> "add_validated_fact", statement |-> statement,
                      validation |-> validation]
    /\ UNCHANGED <<instance, records, known, detected, override, clock, tamper,
                   submitted, pending>>

\* statements of every shape validate_statement is called with
Shapes ==
    {"a cat is an animal", "a cat is a chair", "5 + 5 is 10",
     "A rose is a rose is a rose", "the speed is high", "cats are animals",
     "2 cats are 5 + 5", "the distance measures far"}

\* TruthValidator.validate_statement up to the dict _parse_statement returns,
\* reached when the statement's key is not in the Knowledge Base
ParseCall ==
    /\ instance = "TruthValidator"
    /\ \E statement \in Shapes :
          LET statement_lower == Strip(Lower(statement))
          IN  /\ NormalizeToKey(statement_lower) \notin DOMAIN facts
              /\ last' = [op |-> "_parse_statement", statement |-> statement,
                          parsed |-> ParseStatement(statement_lower)]
    /\ UNCHANGED <<instance, records, known, detected, facts, override, clock, tamper,
                   submitted, answers, pending>>

\* the arguments validate_against_axioms is called with on a kernel of its own
Propositions ==
    { Str(""), Str("   "), Str("x"),
      Str(LongCommand(MaxPropositionLen)),
      Str(LongCommand(MaxPropositionLen + 1)),
      Str(" " \o LongCommand(MaxPropositionLen - 1) \o " "),
      Str(LongCommand(MaxPropositionLen) \o " "),
      NotStr }

\* AxiomKernel.validate_against_axioms on an argument of any type
ValidateArgument(proposition) ==
    IF proposition[1] # "str"
    THEN [valid |-> FALSE, reason |-> "Proposition must be string"]
    ELSE ValidateAgainstAxioms(proposition[2])

\* AxiomKernel.validate_against_axioms on a kernel of its own
GateCall ==
    /\ instance = "AxiomKernel"
    /\ \E proposition \in Propositions :
          LET result == ValidateArgument(proposition)
          IN  /\ last' = [op |-> "validate_against_axioms",
                          proposition |-> proposition, result |-> result]
              /\ answers' = answers \cup {<<proposition, result>>}
    /\ UNCHANGED <<instance, records, known, detected, facts, override, clock, tamper,
                   submitted, pending>>

Next ==
    \/ ProcessCommand \/ StatusQuery \/ HistoryQuery
    \/ AppendCall \/ VerifyCall \/ Tamper
    \/ MutateRecords \/ MutateHistory
    \/ ValidateCall \/ AddFactCall \/ ParseCall
    \/ GateCall

Spec == Init /\ [][Next]_vars

(***************************************************************************)
(* One ProofLedger shared by threads.  append takes no lock, so a thread    *)
(* can be switched out between reading the tail of the ledger and storing   *)
(* the record it built from it.                                            *)
(***************************************************************************)
Threads == {1, 2}

\* ProofLedger.__init__, no append in progress
ConcurrentInit ==
    /\ instance = "ProofLedger"
    /\ records = <<>>
    /\ known = {}
    /\ detected = <<>>
    /\ facts = NoEngine
    /\ override = FALSE
    /\ clock = 0
    /\ tamper = None
    /\ submitted = <<>>
    /\ answers = {}
    /\ pending = [t \in Threads |-> None]
    /\ last = [op |-> "__init__"]

\* the appends begun and not yet stored
InProgress == {t \in Threads : pending[t] # None}

\* thread t enters append: it reads the clock and the hash of the last record
BeginAppend(t) ==
    /\ pending[t] = None
    /\ Len(records) + Cardinality(InProgress) < MaxAppends
    /\ \E a \in Appends : \E now \in After(clock) :
          /\ clock' = now
          /\ pending' = [pending EXCEPT ![t] =
                 Some([timestamp |-> now, prev_hash |-> PrevHashOf(records), args |-> a])]
    /\ last' = [op |-> "append_begin", thread |-> t]
    /\ UNCHANGED <<instance, records, known, detected, facts, override, tamper,
                   submitted, answers>>

\* thread t builds its record from what it read and stores it at the end of
\* the list
FinishAppend(t) ==
    /\ pending[t] # None
    /\ LET call == pending[t][1]
           record == BuildRecord(call.timestamp, call.prev_hash, call.args.premises,
                                 call.args.inference_steps, call.args.conclusion,
                                 call.args.counterexample)
       IN  /\ records' = Append(records, record)
           /\ last' = [op |-> "append", record |-> record, thread |-> t]
    /\ pending' = [pending EXCEPT ![t] = None]
    /\ UNCHANGED <<instance, known, detected, facts, override, clock, tamper,
                   submitted, answers>>

ConcurrentNext == \E t \in Threads : BeginAppend(t) \/ FinishAppend(t)

ConcurrentSpec == ConcurrentInit /\ [][ConcurrentNext]_vars

(***************************************************************************)
(* Properties.  A step is named by the call it leaves in last: every call   *)
(* but the two read-only queries writes last on return.                    *)
(***************************************************************************)
\* the step is a process_command call on a text command
TextCallStep == last'.op = "process_command" /\ last'.path # "not_text"

\* the step is a ProofLedger.append, called directly or by process_command
AppendStep == last'.op = "append" \/ TextCallStep

\* the step overwrites a stored field in place
TamperStep == last'.op = "tamper"

IsPrefix(a, b) == Len(a) <= Len(b) /\ \A i \in 1..Len(a) : b[i] = a[i]

\* C1: chain integrity.  After any number of appends (none included) and no
\* tampering, verify_integrity() succeeds, whether the records were appended
\* directly or by process_command; so a verify_integrity() call returns valid
\* and get_status() reports the ledger valid.
ChainIntegrity ==
    tamper = None =>
        /\ VerifyIntegrity(records).valid
        /\ last.op = "verify_integrity" => last.result.valid
        /\ instance = "FrankensteinCore" =>
              /\ GetStatus(records, detected, override).proof_ledger_valid
              /\ GetStatus(records, detected, override).proof_ledger_message
                    = "Ledger integrity verified"

\* a ledger of MaxAppends records, untouched, that verify_integrity() has just
\* found valid
ChainIntegrityWitness ==
    /\ instance = "ProofLedger"
    /\ tamper = None
    /\ Len(records) >= 3
    /\ records[2].counterexample # None
    /\ last.op = "verify_integrity"
    /\ last.result = [valid |-> TRUE, message |-> "Ledger integrity verified"]

\* C2: tamper detection.  Once one stored field of record i has been changed
\* to a different value, verify_integrity() fails and the message names
\* exactly index i (as a linkage break or as a content-tamper break), with a
\* collision-free digest.
TamperDetected ==
    tamper # None =>
        LET result == VerifyIntegrity(records)
            i == ToString(tamper[1].index)
        IN  /\ ~result.valid
            /\ result.message \in
                  {"Chain broken at record " \o i,
                   "Record " \o i \o " hash mismatch - content tampered"}
            /\ last.op = "verify_integrity" => last.result = result

\* the conclusion of the middle record of three was changed, and
\* verify_integrity() reported record 1
TamperDetectedWitness ==
    /\ tamper = Some([index |-> 1, field |-> "conclusion"])
    /\ Len(records) = 3
    /\ last.op = "verify_integrity"
    /\ last.result = [valid |-> FALSE,
                      message |-> "Record 1 hash mismatch - content tampered"]

\* C3: append-only ordering.  Every append makes the ledger one record longer,
\* leaves the records it held unchanged and in place, puts the new record last
\* and gives it the hash of the record before it as prev_hash (the genesis
\* digest for the first); no other call of the program changes the ledger.
AppendOnly ==
    [][/\ AppendStep =>
            /\ Len(records') = Len(records) + 1
            /\ IsPrefix(records, records')
            /\ records'[Len(records')].prev_hash =
                  IF Len(records) = 0 THEN GenesisHash ELSE records[Len(records)].hash
       /\ ~AppendStep /\ ~TamperStep => records' = records]_vars

\* a third record has just been appended to a ledger
AppendOnlyWitness ==
    /\ instance = "ProofLedger"
    /\ last.op = "append"
    /\ Len(records) = 3
    /\ records[3] = last.record
    /\ records[3].prev_hash = records[2].hash
    /\ records[1].prev_hash = GenesisHash

\* the Knowledge Base keys a step created or gave another value
KeysWritten == {k \in DOMAIN facts' : k \notin DOMAIN facts \/ facts'[k] # facts[k]}

\* C4: every process_command on a text statement appends exactly one record,
\* whatever the outcome, and makes at most one known-set insertion, at most one
\* Knowledge Base write and at most one (one-way) override flip.
OneAppendPerCall ==
    [][TextCallStep =>
          /\ Len(records') = Len(records) + 1
          /\ IsPrefix(records, records')
          /\ records'[Len(records')].premises = <<last'.command[2]>>
          /\ known \subseteq known'
          /\ Cardinality(known' \ known) <= 1
          /\ DOMAIN facts \subseteq DOMAIN facts'
          /\ Cardinality(KeysWritten) <= 1
          /\ Len(detected') <= Len(detected) + 1
          /\ override => override']_vars

\* a call that was accepted after one that was refused at the axiom gate: the
\* ledger holds the initialization record and one record for each call, and
\* the accepted call made one insertion and one Knowledge Base write
OneAppendPerCallWitness ==
    /\ instance = "FrankensteinCore"
    /\ submitted = <<"", "5 + 5 = 10">>
    /\ Len(records) = 3
    /\ last.op = "process_command"
    /\ last.path = "accepted"
    /\ Cardinality(known) = 1
    /\ "5_+_5_=_10" \in DOMAIN facts

\* C5: monotonic override.  Once override_active is true it is true in every
\* later state, whatever is accepted, refused or queried afterwards.
MonotonicOverride == [][override => override']_vars

\* a statement was accepted after the flag had been set
MonotonicOverrideWitness ==
    /\ override
    /\ Len(submitted) = 2
    /\ last.op = "process_command"
    /\ last.accepted

\* the engine returned a contradiction of severity >= 0.7 in the step
SevereVerdict ==
    /\ last'.op = "process_command"
    /\ last'.path = "contradiction"
    /\ last'.contradiction.severity >= 70

\* C6: override trigger.  A process_command call leaves override_active true
\* exactly when it was true before or the engine returned a contradiction of
\* severity >= 0.7 in that call; so the flag goes from false to true in, and
\* only in, such a call, and no axiom refusal, acceptance or other call sets it.
OverrideTrigger ==
    [][/\ override' = (override \/ SevereVerdict)
       /\ (~override /\ override') <=> (~override /\ SevereVerdict)]_vars

\* the first refusal by the engine, a Survival contradiction of severity 0.8,
\* has set the flag after an axiom refusal had left it clear
OverrideTriggerWitness ==
    /\ override
    /\ submitted = <<"", "maximize profit at all costs">>
    /\ Len(detected) = 1
    /\ last.op = "process_command"
    /\ last.path = "contradiction"
    /\ last.contradiction.severity = 80

\* the Axiom Gate rejects the statement: empty once trimmed, or too long
GateRejects(statement) == Strip(statement) = "" \/ Len(statement) > 10000

\* C7: axiom-gate refusal path.  When the gate rejects the statement, the call
\* appends one record with conclusion REFUSED whose counterexample is the
\* axiom-violation reason, returns that refusal, and does not reach the engine:
\* the contradiction list, the known set, the Knowledge Base and the override
\* flag are unchanged.
AxiomRefusalPath ==
    [][(TextCallStep /\ GateRejects(last'.command[2])) =>
          LET reason == IF Strip(last'.command[2]) = ""
                        THEN "Empty proposition violates identity"
                        ELSE "Proposition too long"
              record == records'[Len(records')]
          IN  /\ Len(records') = Len(records) + 1
              /\ IsPrefix(records, records')
              /\ record.premises = <<last'.command[2]>>
              /\ record.conclusion = "REFUSED"
              /\ record.counterexample = Some("AXIOM VIOLATION: " \o reason)
              /\ ~last'.accepted
              /\ last'.message = "AXIOM VIOLATION: " \o reason
              /\ last'.path = "axiom"
              /\ UNCHANGED <<known, detected, facts, override>>]_vars

\* an over-long statement was refused at the gate by a pipeline whose engine
\* already held an accepted proposition and a fact it had learned
AxiomRefusalPathWitness ==
    /\ last.op = "process_command"
    /\ last.path = "axiom"
    /\ last.message = "AXIOM VIOLATION: Proposition too long"
    /\ Len(submitted) = 2
    /\ Len(submitted[2]) = 10001
    /\ Cardinality(known) = 1
    /\ "5_+_5_=_10" \in DOMAIN facts

\* some record of the ledger accepts this content
AcceptedInLedger(content) ==
    \E i \in 1..Len(records) :
        records[i].conclusion = "ACCEPTED" /\ records[i].premises = <<content>>

NonTrueResponses ==
    {ValidationResponse(result, 100, "reasoning", <<"evidence">>) :
        result \in {"FALSE", "UNKNOWN", "CONTRADICTION"}}

\* C9: Knowledge Base write discipline.  A call whose validation result is
\* Unknown or False, and a call that never reaches the validator, leaves the
\* Knowledge Base as it was; add_validated_fact with a response that is not
\* TRUE leaves the Knowledge Base unchanged.
KnowledgeBaseWriteDiscipline ==
    [][/\ TextCallStep =>
            \/ /\ last'.path \in {"accepted", "contradiction"}
               /\ last'.validation # None
               /\ last'.validation[1].result = "TRUE"
            \/ facts' = facts
       /\ last'.op = "add_validated_fact" =>
             \/ last'.validation.result = "TRUE"
             \/ facts' = facts
       /\ (~TextCallStep /\ last'.op # "add_validated_fact") => facts' = facts
       /\ \A response \in NonTrueResponses : \A statement \in TextCommands :
             AddValidatedFact(facts, statement, response) = facts]_vars

\* a statement validated False was refused by a pipeline that had learned a
\* fact before, and the Knowledge Base still holds the core facts and that one
KnowledgeBaseWriteDisciplineWitness ==
    /\ submitted = <<"5 + 5 = 10", "5 + 5 = 11">>
    /\ last.op = "process_command"
    /\ last.path = "contradiction"
    /\ last.validation # None
    /\ last.validation[1].result = "FALSE"
    /\ DOMAIN facts = DOMAIN CoreFacts \cup {"5_+_5_=_10"}

\* C10 as claimed: the ledger holds exactly one record per submitted statement,
\* in submission order; after "cats are animals" alone the statement is
\* accepted, decision_count is 1 and history()[0] is its record, Accepted.
FreshLedgerOneRecordPerStatement ==
    (instance = "FrankensteinCore" /\ submitted # <<>>) =>
        /\ Len(records) = Len(submitted)
        /\ \A i \in 1..Len(records) :
              i <= Len(submitted) => records[i].premises = <<submitted[i]>>
        /\ submitted = <<"cats are animals">> =>
              /\ (last.op = "process_command" /\ last.path # "not_text") => last.accepted
              /\ GetStatus(records, detected, override).total_decisions = 1
              /\ GetProofHistory(records)[1].conclusion = "ACCEPTED"

\* C10 as amended: the ledger of a pipeline holds the initialization record
\* and then exactly one record per submitted text statement, in submission
\* order; after "cats are animals" alone the statement is accepted,
\* total_decisions is 2, history()[0] is the initialization record and
\* history()[1] is the statement's record, with conclusion ACCEPTED.
FreshLedgerInitThenOnePerStatement ==
    instance = "FrankensteinCore" =>
        /\ Len(records) = 1 + Len(submitted)
        /\ GetProofHistory(records)[1].premises = <<"System initialization">>
        /\ GetProofHistory(records)[1].conclusion
              = "Frankenstein Core initialized - Logic is master"
        /\ \A i \in 1..Len(submitted) :
              /\ records[i + 1].premises = <<submitted[i]>>
              /\ records[i + 1].conclusion \in {"ACCEPTED", "REFUSED"}
        /\ submitted = <<"cats are animals">> =>
              /\ (last.op = "process_command" /\ last.path # "not_text") => last.accepted
              /\ GetStatus(records, detected, override).total_decisions = 2
              /\ GetProofHistory(records)[2].premises = <<"cats are animals">>
              /\ GetProofHistory(records)[2].conclusion = "ACCEPTED"
              /\ GetProofHistory(records)[2].counterexample = None

\* "cats are animals" alone was submitted to a fresh pipeline and accepted
FreshLedgerWitness ==
    /\ instance = "FrankensteinCore"
    /\ submitted = <<"cats are animals">>
    /\ last.op = "process_command"
    /\ last.accepted
    /\ Len(records) = 2

\* the step is a process_command call the Contradiction Engine refused
EngineRefusalStep == TextCallStep /\ last'.path = "contradiction"

\* C11: contradiction accounting.  contradiction_count is 0 after construction,
\* grows by exactly 1 in every process_command call the Contradiction Engine
\* refuses, and is unchanged by every other step (acceptances, axiom refusals,
\* non-text calls, queries), so it always equals the number of engine refusals.
ContradictionAccounting ==
    [][/\ last.op = "__init__" => GetContradictionCount(detected) = 0
       /\ GetContradictionCount(detected') =
             GetContradictionCount(detected) + (IF EngineRefusalStep THEN 1 ELSE 0)
       /\ GetStatus(records', detected', override').contradictions_detected =
             GetContradictionCount(detected')]_vars

\* "5 + 5 = 10" was accepted, then "5 + 5 = 11" refused as a mathematical
\* falsehood: the count is 1
ContradictionAccountingWitness ==
    /\ submitted = <<"5 + 5 = 10", "5 + 5 = 11">>
    /\ last.op = "process_command"
    /\ last.path = "contradiction"
    /\ last.contradiction.type = Type_LOGICAL
    /\ records[2].conclusion = "ACCEPTED"
    /\ records[3].conclusion = "REFUSED"
    /\ GetStatus(records, detected, override).contradictions_detected = 1

\* existing reads 'S <pos-verb> O' and new reads 'S <neg-verb> O' for a pair of
\* the antonym table: the same non-empty text S before the verb, the same text
\* O after it (letter case apart)
AntonymPair(existing, new) ==
    LET e == Lower(existing)
        n == Lower(new)
    IN  \E o \in 1..Len(Opposites) :
            LET pos == Opposites[o][1]
                neg == Opposites[o][2]
                p == Find(e, pos)
                q == Find(n, neg)
            IN  /\ Contains(n, neg)
                /\ Contains(e, pos)
                /\ p > 0
                /\ q > 0
                /\ Slice(e, 0, p) = Slice(n, 0, q)
                /\ Slice(e, p + Len(pos), Len(e)) = Slice(n, q + Len(neg), Len(n))

\* the pairs (existing, new) of submitted statements that pass the Axiom Gate
\* and read 'S <pos-verb> O', 'S <neg-verb> O'
AntonymPairs ==
    {pair \in TextCommands \X TextCommands :
        /\ ValidateAgainstAxioms(pair[1]).valid
        /\ ValidateAgainstAxioms(pair[2]).valid
        /\ AntonymPair(pair[1], pair[2])}

\* the pairs (existing, new) of submitted statements that pass the Axiom Gate
\* and of which _is_negation holds
NegationPairs ==
    {pair \in TextCommands \X TextCommands :
        /\ ValidateAgainstAxioms(pair[1]).valid
        /\ ValidateAgainstAxioms(pair[2]).valid
        /\ IsNegation(Lower(pair[2]), Lower(pair[1]))}

\* C12: direct contradiction by antonym verb.  When the known set holds a
\* proposition 'S <pos-verb> O' and a statement 'S <neg-verb> O' that passes
\* the Axiom Gate is submitted, the call is refused with a Contradiction of kind
\* Direct and severity 1.0 whose propositions are [a known proposition the new
\* one negates, the new proposition]; the known one is 'S <pos-verb> O' itself
\* when no other known proposition is negated.
DirectByAntonym ==
    [][\A e \in known :
          ( /\ TextCallStep
            /\ <<e.content, last'.command[2]>> \in AntonymPairs )
          => /\ last'.path = "contradiction"
             /\ ~last'.accepted
             /\ last'.contradiction.type = Type_DIRECT
             /\ last'.contradiction.severity = 100
             /\ Len(last'.contradiction.propositions) = 2
             /\ last'.contradiction.propositions[2] = last'.prop
             /\ last'.contradiction.propositions[1] \in known
             /\ <<last'.contradiction.propositions[1].content, last'.command[2]>>
                   \in NegationPairs
             /\ ( (\A k \in known \ {e} :
                      <<k.content, last'.command[2]>> \notin NegationPairs)
                  => last'.contradiction.propositions[1] = e )
             /\ known' = known]_vars

\* "the company builds trust" was accepted, then "the company destroys trust"
\* refused as a Direct contradiction listing both, the accepted one first
DirectByAntonymWitness ==
    /\ submitted = <<"the company builds trust", "the company destroys trust">>
    /\ last.op = "process_command"
    /\ last.path = "contradiction"
    /\ last.contradiction.type = Type_DIRECT
    /\ last.contradiction.severity = 100
    /\ Len(last.contradiction.propositions) = 2
    /\ last.contradiction.propositions[1].content = "the company builds trust"
    /\ last.contradiction.propositions[1] \in known
    /\ last.contradiction.propositions[2].content = "the company destroys trust"

\* the content carries an extraction/greed phrase, a destabilization phrase
HasGreedPhrase(content) ==
    LET content_lower == Lower(content)
    IN  \E pattern \in GreedPatterns : Contains(content_lower, pattern)

HasDestabilizePhrase(content) ==
    LET content_lower == Lower(content)
    IN  \E pattern \in DestabilizePatterns : Contains(content_lower, pattern)

\* the step is a process_command call on a statement that passes the Axiom
\* Gate and carries a survival-policy phrase
SurvivalPhraseStep ==
    /\ TextCallStep
    /\ \E new \in TextCommands :
          /\ last'.command[2] = new
          /\ ValidateAgainstAxioms(new).valid
          /\ HasGreedPhrase(new) \/ HasDestabilizePhrase(new)

\* the call of this step was refused as a Survival contradiction of the
\* severity of the phrase family, implicating the new proposition alone
SurvivalVerdict ==
    /\ last'.path = "contradiction"
    /\ ~last'.accepted
    /\ last'.contradiction.type = Type_SURVIVAL
    /\ \E new \in TextCommands :
          /\ last'.command[2] = new
          /\ last'.contradiction.severity = (IF HasGreedPhrase(new) THEN 80 ELSE 90)
    /\ last'.contradiction.propositions = <<last'.prop>>

\* C13 as stated: a statement with a survival-policy phrase is refused as a
\* Survival contradiction (0.8 for a greed phrase, else 0.9) implicating only
\* the new proposition and override_active becomes true, whatever was accepted
\* earlier.
SurvivalVerdictFromContentAlone ==
    [][SurvivalPhraseStep => (SurvivalVerdict /\ override')]_vars

\* C13, amended: a statement with a survival-policy phrase is always refused
\* and override_active becomes true; the refusal is the Survival contradiction
\* (0.8 for a greed phrase, else 0.9, the new proposition alone) exactly when
\* the new statement negates no known proposition, and otherwise the Direct
\* contradiction of severity 1.0 that the earlier check returns.
SurvivalVerdictAfterDirectCheck ==
    [][SurvivalPhraseStep =>
          /\ last'.path = "contradiction"
          /\ ~last'.accepted
          /\ override'
          /\ known' = known
          /\ IF \A k \in known : <<k.content, last'.command[2]>> \notin NegationPairs
             THEN SurvivalVerdict
             ELSE /\ last'.contradiction.type = Type_DIRECT
                  /\ last'.contradiction.severity = 100
                  /\ Len(last'.contradiction.propositions) = 2]_vars

\* "maximize profit at all costs" was refused as a Survival contradiction of
\* severity 0.8 and the override flag is set
SurvivalVerdictWitness ==
    /\ submitted = <<"maximize profit at all costs">>
    /\ last.op = "process_command"
    /\ last.path = "contradiction"
    /\ last.contradiction.type = Type_SURVIVAL
    /\ last.contradiction.severity = 80
    /\ last.contradiction.propositions = <<last.prop>>
    /\ override

OutcomeMatchesRecord ==
    [][TextCallStep =>
          /\ last'.accepted \in BOOLEAN
          /\ Len(records') = Len(records) + 1
          /\ LET record == records'[Len(records')]
             IN  /\ record.premises = <<last'.command[2]>>
                 /\ last'.accepted <=>
                       (record.conclusion = "ACCEPTED" /\ record.counterexample = None)
                 /\ ~last'.accepted <=>
                       ( /\ record.conclusion = "REFUSED"
                         /\ record.counterexample = Some(last'.message) )]_vars

\* one statement was accepted and the next refused by the engine, each with
\* its matching record
OutcomeMatchesRecordWitness ==
    /\ instance = "FrankensteinCore"
    /\ Len(records) = 3
    /\ records[2].conclusion = "ACCEPTED"
    /\ records[2].counterexample = None
    /\ records[3].conclusion = "REFUSED"
    /\ last.op = "process_command"
    /\ last.path = "contradiction"
    /\ ~last.accepted
    /\ records[3].counterexample = Some(last.message)

\* the step is a process_command call on a command that is not text
NonTextCallStep == last'.op = "process_command" /\ last'.path = "not_text"

\* C16: non-text input is recovered into a Refused decision.  A process_command
\* call on a command that is not text returns a refusal and appends one REFUSED
\* record, as every other decision does.
NonTextRefusalRecorded ==
    [][NonTextCallStep =>
          /\ ~last'.accepted
          /\ Len(records') = Len(records) + 1
          /\ records'[Len(records')].conclusion = "REFUSED"]_vars

\* record i (1-based) does not link to the record stored before it (the genesis
\* digest for the first record); its stored hash is not the digest of its fields
BrokenLink(i) ==
    records[i].prev_hash # (IF i = 1 THEN GenesisHash ELSE records[i - 1].hash)

HashMismatch(i) ==
    records[i].hash #
        ComputeHash(JsonDumps(records[i].timestamp, records[i].premises,
                              records[i].inference_steps, records[i].conclusion,
                              records[i].counterexample, records[i].prev_hash))

BadRecords == {i \in 1..Len(records) : BrokenLink(i) \/ HashMismatch(i)}

\* C17: fail-fast verification.  verify_integrity() is valid on an empty ledger
\* and on a ledger with no bad record; otherwise it fails at the first bad
\* record in index order, reporting its 0-based index and the kind of break: a
\* linkage break when that record's prev_hash is wrong (tested first), else a
\* content-tamper break; what is stored after that record has no influence.
FailFastVerification ==
    LET result == VerifyIntegrity(records)
    IN  IF records = <<>>
        THEN result = [valid |-> TRUE, message |-> "Empty ledger is valid"]
        ELSE IF BadRecords = {}
        THEN result = [valid |-> TRUE, message |-> "Ledger integrity verified"]
        ELSE LET first == CHOOSE i \in BadRecords : \A j \in BadRecords : i <= j
             IN  /\ result =
                       [valid |-> FALSE,
                        message |->
                           IF BrokenLink(first)
                           THEN "Chain broken at record " \o ToString(first - 1)
                           ELSE "Record " \o ToString(first - 1)
                                    \o " hash mismatch - content tampered"]
                 /\ result = VerifyIntegrity(SubSeq(records, 1, first))

\* a ledger with two bad records (the stored hash of one was overwritten, so
\* the next one no longer links to it): the content-tamper break at the first
\* one is what is reported
FailFastVerificationWitness ==
    /\ Len(records) >= 2
    /\ \E i \in BadRecords : \E j \in BadRecords :
          /\ i < j
          /\ \A k \in BadRecords : i <= k
          /\ ~BrokenLink(i)
          /\ BrokenLink(j)
          /\ VerifyIntegrity(records) =
                [valid |-> FALSE,
                 message |-> "Record " \o ToString(i - 1)
                                 \o " hash mismatch - content tampered"]

\* the step is a caller changing what get_records or get_proof_history returned
MutationStep == last'.op \in {"mutate_records", "mutate_history"}

TrimmedEmpty(statement) ==
    \A i \in 1..Len(statement) : CharAt(statement, i) \in Whitespace

\* the verdict the Axiom Gate contract gives a text statement: the empty
\* reason for a statement that is empty when trimmed, else the too-long reason
\* for a statement of more than 10,000 characters, else success
GateContract(statement) ==
    IF TrimmedEmpty(statement)
    THEN [valid |-> FALSE, reason |-> "Empty proposition violates identity"]
    ELSE IF Len(statement) > 10000
    THEN [valid |-> FALSE, reason |-> "Proposition too long"]
    ELSE [valid |-> TRUE, reason |-> "Passes axiom validation"]

\* C19: Axiom Gate contract.  validate_against_axioms on a text statement
\* fails with the empty reason iff the trimmed statement is empty, otherwise
\* fails with the too-long reason iff the statement is longer than 10,000
\* characters (exactly 10,000 passes), otherwise succeeds; the call changes no
\* state and repeats the verdict every earlier call gave the same statement.
AxiomGateContract ==
    [][last'.op = "validate_against_axioms" =>
          /\ \A proposition \in Propositions :
                (proposition = last'.proposition /\ proposition[1] = "str")
                => last'.result = GateContract(proposition[2])
          /\ \A a \in answers : a[1] = last'.proposition => a[2] = last'.result
          /\ UNCHANGED <<instance, records, known, detected, facts, override, clock,
                         tamper, submitted, pending>>]_vars

\* a statement of exactly 10,000 characters passed, after one of 10,001 was
\* refused as too long and a blank one as empty
AxiomGateContractWitness ==
    /\ instance = "AxiomKernel"
    /\ last.op = "validate_against_axioms"
    /\ last.proposition = Str(LongCommand(MaxPropositionLen))
    /\ last.result.valid
    /\ <<Str(LongCommand(MaxPropositionLen + 1)),
         [valid |-> FALSE, reason |-> "Proposition too long"]>> \in answers
    /\ <<Str("   "),
         [valid |-> FALSE, reason |-> "Empty proposition violates identity"]>> \in answers

\* C20: serialized appends under concurrency.  With two threads appending to
\* one ledger, in every interleaving each stored record's prev_hash is the hash
\* of the record stored immediately before it (the genesis digest for the
\* first) and verify_integrity() succeeds.
SerializedAppends ==
    /\ \A i \in 1..Len(records) : ~BrokenLink(i)
    /\ VerifyIntegrity(records).valid

(***************************************************************************)
(* One FrankensteinCore shared by threads.  process_command takes no lock,  *)
(* so a thread can be switched out after the engine has returned its        *)
(* verdict, after the override flag is set, and before the ledger append;   *)
(* get_status and get_proof_history take none either.                       *)
(***************************************************************************)
\* FrankensteinCore.__init__, no process_command call in progress
CoreConcurrentInit ==
    /\ instance = "FrankensteinCore"
    /\ records = LedgerAppend(<<>>, 0, <<"System initialization">>,
                     <<"Load axiom kernel", "Initialize proof ledger",
                       "Initialize contradiction engine">>,
                     "Frankenstein Core initialized - Logic is master", None)
    /\ known = {}
    /\ detected = <<>>
    /\ facts = CoreFacts
    /\ override = FALSE
    /\ clock = 0
    /\ tamper = None
    /\ submitted = <<>>
    /\ answers = {}
    /\ pending = [t \in Threads |-> None]
    /\ last = [op |-> "__init__"]

\* thread t runs process_command on a text command up to the axiom refusal or
\* the return of add_proposition; ledger_size is the size of the ledger then
DecideStep(t) ==
    /\ pending[t] = None
    /\ Len(submitted) < MaxCalls
    /\ \E sub \in Submissions : \E t1 \in After(clock) :
          /\ sub[1][1] = "str"
          /\ LET cmd == sub[1][2]
                 src == SanitizeSource(sub[2])
                 timestamp == IsoFormat(t1)
                 prop == Proposition(src \o "_" \o timestamp, cmd, src, timestamp)
                 gate == ValidateAgainstAxioms(cmd)
             IN  /\ submitted' = Append(submitted, cmd)
                 /\ clock' = t1
                 /\ IF ~gate.valid
                    THEN /\ pending' = [pending EXCEPT ![t] =
                               Some([stage |-> "append", path |-> "axiom", command |-> cmd,
                                     verdict |-> None, ledger_size |-> Len(records)])]
                         /\ UNCHANGED <<known, detected, facts>>
                    ELSE \E out \in AddProposition(known, detected, facts, prop) :
                         /\ known' = out.known
                         /\ detected' = out.detected
                         /\ facts' = out.kb
                         /\ pending' = [pending EXCEPT ![t] =
                               Some([stage |-> IF out.contradiction # None
                                               THEN "flag" ELSE "append",
                                     path |-> IF out.contradiction # None
                                              THEN "contradiction" ELSE "accepted",
                                     command |-> cmd, verdict |-> out.contradiction,
                                     ledger_size |-> Len(records)])]
    /\ last' = [op |-> "add_proposition", thread |-> t]
    /\ UNCHANGED <<instance, records, override, tamper, answers>>

\* thread t, holding a contradiction, sets the override flag
FlagStep(t) ==
    /\ pending[t] # None
    /\ pending[t][1].stage = "flag"
    /\ override' = OverrideAfter(override, pending[t][1].verdict)
    /\ pending' = [pending EXCEPT ![t] = Some([pending[t][1] EXCEPT !.stage = "append"])]
    /\ last' = [op |-> "set_override", thread |-> t]
    /\ UNCHANGED <<instance, records, known, detected, facts, clock, tamper,
                   submitted, answers>>

\* thread t appends the record of its decision and returns
LedgerStep(t) ==
    /\ pending[t] # None
    /\ pending[t][1].stage = "append"
    /\ LET call == pending[t][1]
           cmd == call.command
           refusal == IF call.path = "axiom"
                      THEN "AXIOM VIOLATION: " \o ValidateAgainstAxioms(cmd).reason
                      ELSE IF call.path = "contradiction"
                      THEN GenerateRefusal(call.verdict[1])
                      ELSE ""
       IN  /\ \E t2 \in After(clock) :
                /\ clock' = t2
                /\ records' =
                      IF call.path = "axiom"
                      THEN LedgerAppend(records, t2, <<cmd>>, <<"Axiom validation">>,
                                        "REFUSED", Some(refusal))
                      ELSE IF call.path = "contradiction"
                      THEN LedgerAppend(records, t2, <<cmd>>,
                               <<"Contradiction detection",
                                 "Type: " \o call.verdict[1].type>>,
                               "REFUSED", Some(refusal))
                      ELSE LedgerAppend(records, t2, <<cmd>>,
                               <<"Axiom validation: PASS", "Contradiction check: PASS">>,
                               "ACCEPTED", None)
           /\ last' = [op |-> "process_command", command |-> Str(cmd),
                       accepted |-> (call.path = "accepted"),
                       message |-> IF call.path = "accepted"
                                   THEN "Command accepted: " \o cmd ELSE refusal,
                       path |-> call.path, thread |-> t]
    /\ pending' = [pending EXCEPT ![t] = None]
    /\ UNCHANGED <<instance, known, detected, facts, override, tamper,
                   submitted, answers>>

\* a reader calls get_status and get_proof_history and looks up the known set,
\* all three on the same state
ReadCall ==
    /\ last' = [op |-> "get_status",
                result |-> GetStatus(records, detected, override),
                history |-> GetProofHistory(records),
                known |-> known]
    /\ UNCHANGED <<instance, records, known, detected, facts, override, clock,
                   tamper, submitted, answers, pending>>

CoreConcurrentNext ==
    \/ \E t \in Threads : DecideStep(t) \/ FlagStep(t) \/ LedgerStep(t)
    \/ ReadCall

CoreConcurrentSpec == CoreConcurrentInit /\ [][CoreConcurrentNext]_vars

\* the records of a history that log an engine refusal, and an acceptance
RefusalsLogged(history) ==
    {i \in DOMAIN history :
        /\ history[i].conclusion = "REFUSED"
        /\ history[i].inference_steps # <<>>
        /\ history[i].inference_steps[1] = "Contradiction detection"}

AcceptancesLogged(history) ==
    {i \in DOMAIN history : history[i].conclusion = "ACCEPTED"}

\* C21: decisions are transactional for readers.  With threads submitting to
\* one core, what a reader sees belongs to logged decisions only: the
\* contradiction count is the number of engine refusals in the history, the
\* known set is no larger than the number of acceptances in the history, and
\* the override flag is set only when a refusal is in the history; and the
\* ledger does not grow between a decision's engine verdict and its own append.
TransactionalDecisions ==
    /\ last.op = "get_status" =>
          /\ last.result.contradictions_detected =
                Cardinality(RefusalsLogged(last.history))
          /\ Cardinality(last.known) <= Cardinality(AcceptancesLogged(last.history))
          /\ last.result.override_active => RefusalsLogged(last.history) # {}
    /\ \A t \in Threads :
          (pending[t] # None /\ pending[t][1].path # "axiom")
             => Len(records) = pending[t][1].ledger_size

\* the submitted statements that pass the Axiom Gate and carry a
\* survival-policy phrase
SurvivalCommands ==
    {c \in TextCommands :
        /\ ValidateAgainstAxioms(c).valid
        /\ HasGreedPhrase(c) \/ HasDestabilizePhrase(c)}

\* C22: check order with short-circuit.  In a call that passes the Axiom Gate
\* the engine checks direct negation, then the survival policy, then the Truth
\* Validator, and stops at the first hit: a statement that negates a known
\* proposition is refused as Direct with severity 1.0, whatever else holds of it
\* (a survival phrase, false arithmetic); one that negates none and carries a
\* survival phrase is refused as Survival; when the direct or the survival
\* check fires the Truth Validator is not consulted and the Knowledge Base is
\* not written, and otherwise the validator is consulted and a refusal is a
\* Logical one; a refusal logs exactly one Contradiction, the one returned.
ShortCircuitOrder ==
    [][(TextCallStep /\ last'.path # "axiom") =>
          \E new \in TextCommands :
             /\ last'.command[2] = new
             /\ LET negates == \E k \in known : <<k.content, new>> \in NegationPairs
                    survival == new \in SurvivalCommands
                IN  /\ negates =>
                          /\ last'.path = "contradiction"
                          /\ last'.contradiction.type = Type_DIRECT
                          /\ last'.contradiction.severity = 100
                    /\ (~negates /\ survival) =>
                          /\ last'.path = "contradiction"
                          /\ last'.contradiction.type = Type_SURVIVAL
                    /\ (negates \/ survival) =>
                          /\ last'.validation = None
                          /\ facts' = facts
                    /\ (~negates /\ ~survival) =>
                          /\ last'.validation # None
                          /\ last'.path = "contradiction" =>
                                last'.contradiction.type = Type_LOGICAL
             /\ IF last'.path = "contradiction"
                THEN detected' = Append(detected, last'.contradiction)
                ELSE detected' = detected]_vars

\* "the company builds trust" was accepted; "the company destroys trust 5 + 5 =
\* 11", which negates it and is false arithmetic, was refused as Direct with
\* severity 1.0, the validator not consulted, one contradiction logged
ShortCircuitOrderWitness ==
    /\ submitted = <<"the company builds trust", "the company destroys trust 5 + 5 = 11">>
    /\ last.op = "process_command"
    /\ last.path = "contradiction"
    /\ last.contradiction.type = Type_DIRECT
    /\ last.contradiction.severity = 100
    /\ last.validation = None
    /\ ValidateStatement(facts, "the company destroys trust 5 + 5 = 11").result = "FALSE"
    /\ Len(detected) = 1

\* C23: truth-violation mapping.  In a call in which the direct and the
\* survival check pass, the validator's result decides the outcome: False is
\* refused as a Logical contradiction of severity 0.95 about the new
\* proposition alone, Contradiction as a Logical contradiction of severity 1.0,
\* both without a Knowledge Base write; True is accepted and the response is
\* stored in the Knowledge Base under the statement's key; Unknown is accepted
\* and the Knowledge Base is left as it was.
TruthViolationMapping ==
    [][(TextCallStep /\ last'.path # "axiom" /\ last'.validation # None) =>
          LET result == last'.validation[1].result
          IN  /\ result \in {"TRUE", "FALSE", "UNKNOWN", "CONTRADICTION"}
              /\ result = "FALSE" =>
                    /\ last'.path = "contradiction"
                    /\ last'.contradiction.type = Type_LOGICAL
                    /\ last'.contradiction.severity = 95
                    /\ last'.contradiction.propositions = <<last'.prop>>
                    /\ facts' = facts
              /\ result = "CONTRADICTION" =>
                    /\ last'.path = "contradiction"
                    /\ last'.contradiction.type = Type_LOGICAL
                    /\ last'.contradiction.severity = 100
                    /\ facts' = facts
              /\ result = "TRUE" =>
                    /\ last'.path = "accepted"
                    /\ last'.accepted
                    /\ \E new \in TextCommands :
                          /\ last'.command[2] = new
                          /\ LET key == NormalizeToKey(Lower(new))
                             IN  /\ key \in DOMAIN facts'
                                 /\ facts'[key] = last'.validation[1]
                                 /\ \A k \in DOMAIN facts' \ {key} :
                                       k \in DOMAIN facts /\ facts'[k] = facts[k]
              /\ result = "UNKNOWN" =>
                    /\ last'.path = "accepted"
                    /\ last'.accepted
                    /\ facts' = facts]_vars

\* "5 + 5 = 11" validated False and was refused as a Logical contradiction of
\* severity 0.95 without a Knowledge Base write; "5 + 5 = 10" then validated
\* True, was accepted and is stored as a fact
TruthViolationMappingWitness ==
    /\ submitted = <<"5 + 5 = 11", "5 + 5 = 10">>
    /\ last.op = "process_command"
    /\ last.path = "accepted"
    /\ last.validation # None
    /\ last.validation[1].result = "TRUE"
    /\ Len(detected) = 1
    /\ detected[1].type = Type_LOGICAL
    /\ detected[1].severity = 95
    /\ DOMAIN facts = DOMAIN CoreFacts \cup {"5_+_5_=_10"}
    /\ facts["5_+_5_=_10"] = last.validation[1]

\* C24: fresh proposition identity.  The proposition a process_command call
\* builds for a statement that passes the Axiom Gate has an id that no
\* proposition of the known set has, so an accepted statement makes the known
\* set larger by exactly one element.
FreshPropositionId ==
    [][(TextCallStep /\ last'.path # "axiom") =>
          /\ \A p \in known : p.id # last'.prop.id
          /\ last'.path = "accepted" =>
                Cardinality(known') = Cardinality(known) + 1]_vars

\* the lower-cased, trimmed statement has this word between two spaces
HasCopula(statement, copula) ==
    Contains(Strip(Lower(statement)), " " \o copula \o " ")

\* the subject and the predicate of a statement split at the first occurrence
\* of one of these copulas in the lower-cased, trimmed statement
SplitOnFirst(statement, copulas) ==
    LET st == Strip(Lower(statement))
        found == {c \in copulas : Contains(st, " " \o c \o " ")}
        at(c) == Find(st, " " \o c \o " ")
        first == CHOOSE c \in found : \A d \in found : at(c) <= at(d)
    IN  [subject |-> StripArticles(Slice(st, 0, at(first))),
         predicate |-> StripArticles(Slice(st, at(first) + Len(first) + 2, Len(st)))]

\* the call parsed its statement as a classification statement split at the
\* first occurrence of one of these copulas
ClassifiedBy(copulas) ==
    /\ last.parsed.type = "classification"
    /\ last.parsed.subject = SplitOnFirst(last.statement, copulas).subject
    /\ last.parsed.predicate = SplitOnFirst(last.statement, copulas).predicate

\* C25 as stated: a statement whose key is not in the Knowledge Base and that
\* contains the copula "is" or "are" is parsed as a classification statement,
\* split into subject and predicate at the first occurrence of the copula,
\* whatever arithmetic operators or physical keywords it also contains.
CopulaIsOrAreClassifies ==
    (last.op = "_parse_statement"
        /\ (HasCopula(last.statement, "is") \/ HasCopula(last.statement, "are")))
    => ClassifiedBy({"is", "are"})

\* C25, amended: a statement whose key is not in the Knowledge Base and that
\* contains the copula "is" is parsed as a classification statement, split into
\* subject and predicate at the first occurrence of " is ", whatever arithmetic
\* operators or physical keywords it also contains; "are" is no copula to the
\* parser, so a statement without " is " is never a classification statement
\* and gets its shape from the later cues.
CopulaIsClassifies ==
    /\ (last.op = "_parse_statement" /\ HasCopula(last.statement, "is"))
          => ClassifiedBy({"is"})
    /\ (last.op = "_parse_statement" /\ ~HasCopula(last.statement, "is"))
          => last.parsed.type \in {"mathematical", "physical", "general"}

\* "5 + 5 is 10", which has the copula and an arithmetic operator and no entry
\* in the Knowledge Base, was parsed as a classification of "5 + 5" as "10"
CopulaIsClassifiesWitness ==
    /\ instance = "TruthValidator"
    /\ last.op = "_parse_statement"
    /\ last.statement = "5 + 5 is 10"
    /\ "5_+_5_is_10" \notin DOMAIN facts
    /\ last.parsed.type = "classification"
    /\ last.parsed.subject = "5 + 5"
    /\ last.parsed.predicate = "10"

\* the severities, in hundredths, of the contradictions the engine produces
EngineSeverities == {80, 90, 95, 100}

\* C26: between process_command calls override_active is true exactly when
\* contradiction_count is at least 1: every logged Contradiction has a severity
\* among 0.8, 0.9, 0.95 and 1.0, all at or above the 0.7 threshold, and nothing
\* but a logged Contradiction sets the flag.
OverrideIffContradiction ==
    /\ override <=> (GetContradictionCount(detected) >= 1)
    /\ GetStatus(records, detected, override).override_active
          <=> (GetStatus(records, detected, override).contradictions_detected >= 1)
    /\ \A i \in DOMAIN detected :
          /\ detected[i].severity \in EngineSeverities
          /\ detected[i].severity >= ContradictionThreshold

\* "maximize profit at all costs" was refused as a Survival contradiction of
\* severity 0.8, the lowest the engine produces, then "" at the Axiom Gate: the
\* count is 1 and the flag is set
OverrideIffContradictionWitness ==
    /\ submitted = <<"maximize profit at all costs", "">>
    /\ last.op = "process_command"
    /\ last.path = "axiom"
    /\ GetContradictionCount(detected) = 1
    /\ detected[1].severity = 80
    /\ override

\* C27: the Knowledge Base holds TRUE judgments only and never loses a key.
\* After construction and after every step each entry has result TRUE, and
\* every key of before the step is a key after it; so the Truth Validator
\* never returns the result Contradiction, on its own or inside
\* process_command, and no logged Contradiction is a Logical one of severity
\* 1.0 or one of kind Temporal.
KnowledgeBaseOnlyTrue ==
    [][/\ \A k \in DOMAIN facts : facts[k].result = "TRUE"
       /\ \A k \in DOMAIN facts' : facts'[k].result = "TRUE"
       /\ DOMAIN facts \subseteq DOMAIN facts'
       /\ last'.op = "validate_statement" => last'.response.result # "CONTRADICTION"
       /\ (TextCallStep /\ last'.path # "axiom" /\ last'.validation # None)
             => last'.validation[1].result # "CONTRADICTION"
       /\ \A i \in DOMAIN detected' :
             /\ detected'[i].type # Type_TEMPORAL
             /\ ~(detected'[i].type = Type_LOGICAL /\ detected'[i].severity = 100)]_vars

\* the operator's TRUE judgment of "5 + 5 = 11" was stored, and a later
\* validate_statement of "5 + 5 = 11" returned it: the Knowledge Base has grown
\* and holds TRUE judgments only
KnowledgeBaseOnlyTrueWitness ==
    /\ instance = "TruthValidator"
    /\ last.op = "validate_statement"
    /\ last.statement = "5 + 5 = 11"
    /\ last.response = Taught
    /\ DOMAIN CoreFacts \subseteq DOMAIN facts
    /\ DOMAIN facts # DOMAIN CoreFacts
    /\ \A k \in DOMAIN facts : facts[k].result = "TRUE"

\* C28: distinct record hashes.  In a ledger built by appends alone, no stored
\* field overwritten, the hashes of the records are pairwise distinct and none
\* is the genesis digest, whatever the appends carried.
DistinctHashes ==
    tamper = None =>
       \A i \in DOMAIN records :
          /\ records[i].hash # GenesisHash
          /\ \A j \in DOMAIN records : i # j => records[i].hash # records[j].hash

\* two consecutive appends carried the same timestamp, premises, steps,
\* conclusion and counterexample, and their records have different hashes
DistinctHashesWitness ==
    /\ instance = "ProofLedger"
    /\ tamper = None
    /\ Len(records) >= 2
    /\ records[1].timestamp = records[2].timestamp
    /\ records[1].premises = records[2].premises
    /\ records[1].inference_steps = records[2].inference_steps
    /\ records[1].conclusion = records[2].conclusion
    /\ records[1].counterexample = records[2].counterexample
    /\ records[1].prev_hash = GenesisHash
    /\ records[2].prev_hash = records[1].hash
    /\ records[1].hash # records[2].hash

\* the negative verbs of the antonym pairs supports/undermines,
\* stabilizes/destabilizes and maintains/breaks
SurvivalNegativeVerbs == {"undermines", "destabilizes", "breaks"}

\* the submitted statements that pass the Axiom Gate and have one of these verbs
NegativeSideCommands ==
    {c \in TextCommands :
        /\ ValidateAgainstAxioms(c).valid
        /\ \E verb \in SurvivalNegativeVerbs : Contains(Lower(c), verb)}

\* C29: every known proposition passed the three checks.  In every state no
\* known proposition's content carries a greed or a destabilization phrase and
\* none validates as False; so none has the negative verb of the pairs
\* supports/undermines, stabilizes/destabilizes, maintains/breaks, and in every
\* logged Direct contradiction the existing proposition has none either: such a
\* verb occurs in the newly submitted proposition only.
KnownPassedAllChecks ==
    /\ \A p \in known :
          /\ p.content \notin SurvivalCommands
          /\ p.content \notin NegativeSideCommands
          /\ ValidateStatement(facts, p.content).result # "FALSE"
    /\ \A i \in DOMAIN detected :
          detected[i].type = Type_DIRECT =>
             detected[i].propositions[1].content \notin NegativeSideCommands

\* "the company supports trust" is known and "The company undermines trust" was
\* refused as its Direct contradiction: the negative verb is in the new
\* proposition, the stored one has none
KnownPassedAllChecksWitness ==
    /\ submitted = <<"the company supports trust", "The company undermines trust">>
    /\ Cardinality(known) = 1
    /\ \A p \in known : p.content = "the company supports trust"
    /\ Len(detected) = 1
    /\ detected[1].type = Type_DIRECT
    /\ detected[1].propositions[1] \in known
    /\ detected[1].propositions[2].content = "The company undermines trust"
    /\ "The company undermines trust" \in NegativeSideCommands

\* C30: a statement never directly negates itself.  When the content of a known
\* (accepted) proposition is submitted again, the call is not refused as a
\* Direct contradiction of a proposition with that same content.
NeverNegatesItself ==
    [][\A e \in known :
          ( /\ TextCallStep
            /\ last'.command[2] = e.content )
          => ~( /\ last'.path = "contradiction"
                /\ last'.contradiction.type = Type_DIRECT
                /\ last'.contradiction.propositions[1].content = e.content )]_vars

=============================================================================
